---- MODULE Spec2Model ----
(***************************************************************************)
(* Model of collect_bump_data.py: the calibration acquisition session.     *)
(* A text line is a sequence of one-character strings, so that Python's    *)
(* substring test, startswith, strip, split and int are computed on the    *)
(* characters, as the code computes them.                                  *)
(***************************************************************************)
EXTENDS Integers, Sequences, FiniteSets, TLC

(***************************************************************************)
(* Text primitives (Python str semantics).                                 *)
(***************************************************************************)

\* Characters str.strip() and int() treat as white space.
Whitespace == {" ", "\t", "\n", "\r"}

Digits == {"0", "1", "2", "3", "4", "5", "6", "7", "8", "9"}

\* A byte that is not valid UTF-8: bytes.decode(errors='ignore') drops it.
BadByte == "<0xFF>"

\* bytes.decode('utf-8', errors='ignore')
Decode(raw) == SelectSeq(raw, LAMBDA c : c # BadByte)

RECURSIVE LStrip(_)
LStrip(s) ==
  IF s # <<>> /\ Head(s) \in Whitespace THEN LStrip(Tail(s)) ELSE s

RECURSIVE RStrip(_)
RStrip(s) ==
  IF s # <<>> /\ s[Len(s)] \in Whitespace
  THEN RStrip(SubSeq(s, 1, Len(s) - 1))
  ELSE s

\* str.strip()
Strip(s) == RStrip(LStrip(s))

\* sub in s
Contains(s, sub) ==
  \/ sub = <<>>
  \/ \E i \in 1..(Len(s) - Len(sub) + 1) :
       s[i] = sub[1] /\ SubSeq(s, i, i + Len(sub) - 1) = sub

\* s.startswith(pre)
StartsWith(s, pre) ==
  Len(s) >= Len(pre) /\ SubSeq(s, 1, Len(pre)) = pre

\* s.split(','): the fields between the separators, empty fields kept.
RECURSIVE Split(_, _)
Split(s, sep) ==
  IF \A i \in 1..Len(s) : s[i] # sep
  THEN <<s>>
  ELSE LET k == CHOOSE i \in 1..Len(s) :
                  s[i] = sep /\ \A j \in 1..(i - 1) : s[j] # sep
       IN  <<SubSeq(s, 1, k - 1)>> \o Split(SubSeq(s, k + 1, Len(s)), sep)

DigitVal(c) ==
  CASE c = "0" -> 0 [] c = "1" -> 1 [] c = "2" -> 2 [] c = "3" -> 3
    [] c = "4" -> 4 [] c = "5" -> 5 [] c = "6" -> 6 [] c = "7" -> 7
    [] c = "8" -> 8 [] c = "9" -> 9

DigitChar(n) ==
  CASE n = 0 -> "0" [] n = 1 -> "1" [] n = 2 -> "2" [] n = 3 -> "3"
    [] n = 4 -> "4" [] n = 5 -> "5" [] n = 6 -> "6" [] n = 7 -> "7"
    [] n = 8 -> "8" [] n = 9 -> "9"

\* The part of an int literal after white space and sign: digits, with single
\* underscores allowed between digits.
IsDigitString(s) ==
  /\ s # <<>>
  /\ \A i \in 1..Len(s) : s[i] \in Digits \cup {"_"}
  /\ s[1] \in Digits
  /\ s[Len(s)] \in Digits
  /\ \A i \in 1..(Len(s) - 1) : ~(s[i] = "_" /\ s[i + 1] = "_")

Unsigned(s) ==
  IF s # <<>> /\ Head(s) \in {"+", "-"} THEN Tail(s) ELSE s

\* int(s) returns a value (otherwise it raises ValueError).
IsInt(s) == IsDigitString(Unsigned(Strip(s)))

RECURSIVE DigitsValue(_)
DigitsValue(s) ==
  IF s = <<>> THEN 0
  ELSE DigitsValue(SubSeq(s, 1, Len(s) - 1)) * 10 + DigitVal(s[Len(s)])

\* int(s), for s with IsInt(s).
ParseInt(s) ==
  LET t == Strip(s)
      v == DigitsValue(SelectSeq(Unsigned(t), LAMBDA c : c # "_"))
  IN  IF t # <<>> /\ Head(t) = "-" THEN 0 - v ELSE v

\* str(n) of a natural number.
RECURSIVE NatStr(_)
NatStr(n) ==
  IF n < 10 THEN <<DigitChar(n)>>
  ELSE NatStr(n \div 10) \o <<DigitChar(n % 10)>>

\* Mutant of Str: the sign is dropped.
StrUnsigned(n) == IF n < 0 THEN NatStr(0 - n) ELSE NatStr(n)

\* f"{n}": the decimal text of an integer.
Str(n) == IF n < 0 THEN <<"-">> \o NatStr(0 - n) ELSE NatStr(n)

(***************************************************************************)
(* Program constants and literals.                                         *)
(***************************************************************************)

DEFAULT_DISTANCES == <<3, 5, 7, 10, 12, 15, 20, 25, 30, 35, 40>>

\* connect_serial(port, max_retries=3)
max_retries == 3

\* i % 3 == 0: the period of the intermediate save.
SAVE_EVERY == 3

\* len(parts) >= 5
MIN_FIELDS == 5

START_MARKER ==
  <<"D", "A", "T", "A", " ", "R", "E", "C", "O", "R", "D", " ",
    "S", "T", "A", "R", "T">>

END_MARKER ==
  <<"D", "A", "T", "A", " ", "R", "E", "C", "O", "R", "D", " ", "E", "N", "D">>

\* line.startswith("distance_cm")
HEADER_PREFIX == <<"d", "i", "s", "t", "a", "n", "c", "e", "_", "c", "m">>

\* "[Distance Set To]"
ACK_MARKER ==
  <<"[", "D", "i", "s", "t", "a", "n", "c", "e", " ", "S", "e", "t", " ",
    "T", "o", "]">>

Comma == ","

(***************************************************************************)
(* The device side of the wire: the raw lines the firmware can emit. The   *)
(* firmware is not part of the repository; the lines are the inputs of the *)
(* host's readline() calls.                                                *)
(***************************************************************************)

CRLF == <<"\r", "\n">>

\* The column-header line the firmware prints after the start marker.
HEADER_LINE ==
  HEADER_PREFIX \o
  <<",", "s", "a", "m", "p", "l", "e", "_", "i", "d", ",",
    "b", "u", "m", "p", "_", "L", ",", "b", "u", "m", "p", "_", "R", ",",
    "b", "u", "m", "p", "_", "a", "v", "g">>

\* A well-formed row: distance_cm,sample_id,bump_L,bump_R,bump_avg.
RowText(d, s) ==
  Str(d) \o <<",">> \o Str(s) \o <<",", "4", "0", ",", "4", "2", ",", "4", "1">>

\* A marker with decoration around it, as a banner line would carry.
Banner(marker) == <<"=", "=", " ">> \o marker \o <<" ", "=", "=">>

\* Lines that are neither markers nor candidate rows.
NoiseLines ==
  { <<>>,                                             \* an empty line
    <<"r", "e", "a", "d", "y">>,                      \* diagnostic, no comma
    HEADER_LINE,
    <<BadByte>> \o HEADER_LINE,                       \* header after a bad byte
    HEADER_PREFIX \o <<",", "i", "d">> }              \* header of other columns

\* Lines carrying a marker text.
StartLines == { START_MARKER, Banner(START_MARKER) }
EndLines == { END_MARKER, Banner(END_MARKER), END_MARKER \o <<",", "o", "k">> }

\* Candidate rows the device can emit while distance d is configured and n rows
\* of the block were emitted: the next sample, a row tagged with another
\* distance and carrying a sixth field, a row with a non-numeric field, and a
\* diagnostic line that happens to hold a comma.
RowLines(d, n) ==
  { RowText(d, n),
    RowText(d + 1, n) \o <<",", "9">>,
    Str(d) \o <<",", "?", ",", "4", "0", ",", "4", "2", ",", "4", "1">>,
    <<"e", "r", "r", ":", "a", ",", "b">> }

AckLine(d) == ACK_MARKER \o <<" ">> \o Str(d)

\* The raw lines that do not depend on the distance, and those that do.
FixedLines == { l \o CRLF : l \in NoiseLines \cup StartLines \cup EndLines }
VaryingLines(d, n) == { l \o CRLF : l \in RowLines(d, n) \cup {AckLine(d)} }

DeviceLines(d, n) == FixedLines \cup VaryingLines(d, n)

(***************************************************************************)
(* collect_data_for_distance: the per-line decisions.                      *)
(***************************************************************************)

\* ser.readline().decode('utf-8', errors='ignore').strip()
ReadLine(raw) == Strip(Decode(raw))

\* Mutant of IsStartMarker: line == "DATA RECORD START".
IsStartMarkerExact(line) == line = START_MARKER

\* "DATA RECORD START" in line
IsStartMarker(line) == Contains(line, START_MARKER)

\* "DATA RECORD END" in line
IsEndMarker(line) == Contains(line, END_MARKER)

\* Mutant of AcceptsRow: the comma test is missing.
AcceptsRowNoCommaTest(recording, line) ==
  recording /\ line # <<>> /\ ~StartsWith(line, HEADER_PREFIX)

\* Mutant of AcceptsRow: the header test is missing.
AcceptsRowNoHeaderTest(recording, line) ==
  recording /\ line # <<>> /\ Contains(line, <<Comma>>)

\* recording and line and not line.startswith("distance_cm"), then ',' in line
AcceptsRow(recording, line) ==
  /\ recording
  /\ line # <<>>
  /\ ~StartsWith(line, HEADER_PREFIX)
  /\ Contains(line, <<Comma>>)

(***************************************************************************)
(* save_data: parsing of the buffered lines into the table.                *)
(***************************************************************************)

\* len(parts) >= 5
KeepsLine(line) == Len(Split(line, Comma)) >= MIN_FIELDS

\* One of int(parts[0]) .. int(parts[4]) raises ValueError.
RowRaises(line) ==
  LET parts == Split(line, Comma)
  IN  Len(parts) >= MIN_FIELDS /\ \E k \in 1..5 : ~IsInt(parts[k])

\* Mutant of RowOf: the first two fields are taken in the wrong order.
RowOfSwapped(line) ==
  LET parts == Split(line, Comma)
  IN  [distance_cm |-> ParseInt(parts[2]),
       sample_id   |-> ParseInt(parts[1]),
       bump_L      |-> ParseInt(parts[3]),
       bump_R      |-> ParseInt(parts[4]),
       bump_avg    |-> ParseInt(parts[5])]

\* The dict appended to rows for a kept line.
RowOf(line) ==
  LET parts == Split(line, Comma)
  IN  [distance_cm |-> ParseInt(parts[1]),
       sample_id   |-> ParseInt(parts[2]),
       bump_L      |-> ParseInt(parts[3]),
       bump_R      |-> ParseInt(parts[4]),
       bump_avg    |-> ParseInt(parts[5])]

\* save_data raises ValueError on these lines (the loop stops at the first).
SaveRaises(lines) == \E k \in 1..Len(lines) : RowRaises(lines[k])

\* rows, as built by the loop of save_data when no int() raises.
RECURSIVE TableRows(_)
TableRows(lines) ==
  IF lines = <<>> THEN <<>>
  ELSE (IF KeepsLine(Head(lines)) THEN <<RowOf(Head(lines))>> ELSE <<>>)
       \o TableRows(Tail(lines))

\* Mutant of ListAfterSave: the save empties the list it was given.
ListAfterSaveCleared(lines) == <<>>

\* The list passed to save_data, after the call: "for line in all_data" reads
\* it, and nothing in save_data changes it.
ListAfterSave(lines) == lines

\* A file of the output directory: absent, or the rows of the table written.
NoFile == [exists |-> FALSE, rows |-> <<>>]
FileOf(rows) == [exists |-> TRUE, rows |-> rows]


(***************************************************************************)
(* Operator and host inputs.                                               *)
(***************************************************************************)

\* Upper bound on the lines accepted into the row buffers of one session.
MaxRows == 3

\* Upper bound on the end markers the device emits in one session.
MaxBlocks == 4

\* Upper bound on the buffered lines of one session that are not rows of five
\* integers.
MaxOdd == 1

\* Answers to the "distance list" prompt (main, distances_input).
DistanceInputs ==
  { <<"5", ",", "1", "0">>,
    <<"1", ",", "2", ",", "3", ",", "4">>,
    <<" ", "8", ",", " ", "8", " ">>,
    <<"-", "1">>,
    <<"3", ",", "x">> }

\* [int(d.strip()) for d in distances_input.split(',')]; ValueError -> default
ParseDistances(text) ==
  LET parts == Split(text, Comma)
  IN  IF \A k \in 1..Len(parts) : IsInt(Strip(parts[k]))
      THEN [k \in 1..Len(parts) |-> ParseInt(Strip(parts[k]))]
      ELSE DEFAULT_DISTANCES

\* A serial endpoint as list_ports reports it.
PortInfo(device, description) == [device |-> device, description |-> description]

DescArduino == <<"A", "r", "d", "u", "i", "n", "o", " ", "U", "n", "o">>
DescUSB == <<"U", "S", "B", "-", "S", "E", "R", "I", "A", "L">>
DescModem == <<"M", "o", "d", "e", "m">>

\* The port lists the host can report.
PortLists ==
  { <<>>,
    <<PortInfo("COM3", DescModem)>>,
    <<PortInfo("COM3", DescUSB), PortInfo("COM4", DescArduino)>>,
    <<PortInfo("COM1", DescModem), PortInfo("COM3", DescUSB)>>,
    <<PortInfo("COM3", DescModem), PortInfo("COM4", DescModem)>> }

\* 'Arduino' in d or 'CH340' in d or 'USB' in d
LooksLikeArduino(description) ==
  \/ Contains(description, <<"A", "r", "d", "u", "i", "n", "o">>)
  \/ Contains(description, <<"C", "H", "3", "4", "0">>)
  \/ Contains(description, <<"U", "S", "B">>)

\* The exceptions serial.Serial(...) and the flushes can raise, by type and text.
OpenErrors ==
  { [type |-> "SerialException",
     msg  |-> <<"P", "e", "r", "m", "i", "s", "s", "i", "o", "n",
                "E", "r", "r", "o", "r", "(", "1", "3", ")">>],
    [type |-> "SerialException",
     msg  |-> <<"F", "i", "l", "e", "N", "o", "t", "F", "o", "u", "n", "d">>],
    [type |-> "ValueError",
     msg  |-> <<"b", "a", "d", " ", "p", "o", "r", "t">>] }

\* "PermissionError" in str(e) or "Access is denied" in str(e) or
\* the localized "access denied" text in str(e)
IsBusyError(e) ==
  \/ Contains(e.msg, <<"P", "e", "r", "m", "i", "s", "s", "i", "o", "n",
                       "E", "r", "r", "o", "r">>)
  \/ Contains(e.msg, <<"A", "c", "c", "e", "s", "s", " ", "i", "s", " ",
                       "d", "e", "n", "i", "e", "d">>)
  \/ Contains(e.msg, <<"<U+62D2>", "<U+7EDD>", "<U+8BBF>", "<U+95EE>">>)

\* The class of an open attempt's outcome, as connect_serial's handlers see it.
ErrorClass(e) ==
  IF e.type = "SerialException"
  THEN (IF IsBusyError(e) THEN "busy" ELSE "serial")
  ELSE "other"

(***************************************************************************)
(* State.                                                                  *)
(***************************************************************************)

VARIABLES
  pc,                  \* where main() is
  distances,           \* main: distances
  port,                \* main: port
  ports,               \* find_arduino_port: ports
  asked,               \* history: find_arduino_port asked the operator
  attempt,             \* connect_serial: attempt
  ser,                 \* the channel: "none", "open" or "closed"
  i,                   \* main: i, the 1-based index of the current distance
  recording,           \* collect_data_for_distance: recording
  data_lines,          \* collect_data_for_distance: data_lines
  all_data,            \* main: all_data
  completed_distances, \* main: completed_distances
  temp_file,           \* bump_data_temp_<TIMESTAMP>.csv
  final_file,          \* bump_data_<TIMESTAMP>.csv
  written,             \* what ser.write() has sent to the device
  error,               \* the exception that ended or interrupted the session
  opens,               \* history: the outcome class of each open attempt
  prompts,             \* history: the "press Enter to retry" pauses taken
  trail,               \* history: the steps the current attempt has completed
  stale,               \* connect_serial: handles of failed attempts still open
  busy_twice,          \* history: the connect was busy, busy, then opened
  accepted,            \* history: the lines buffered by the completed distances
  echo,                \* history: each kept line so far names its own distance
  credited,            \* history: while echo, the distances that gave a kept line
  clean,               \* history: every line read so far followed the protocol
  sent,                \* history: the rows the device sent while clean
  drained_start        \* history: send_distance read a start marker that
                       \* collect_data_for_distance has not seen since

vars ==
  <<pc, distances, port, ports, asked, attempt, ser, i, recording, data_lines, all_data,
    completed_distances, temp_file, final_file, written, error, opens,
    prompts, trail, stale, busy_twice, accepted, echo, credited, clean, sent,
    drained_start>>

portVars == <<port, ports, asked>>
connVars == <<attempt, ser, opens, prompts, trail, stale>>
loopVars == <<i, recording, data_lines, all_data, completed_distances, written>>
fileVars == <<temp_file, final_file>>
histVars == <<busy_twice, accepted, echo, credited, clean, sent, drained_start>>

Init ==
  /\ pc = "prompt"
  /\ distances = <<>>
  /\ port = "none"
  /\ ports = <<>>
  /\ asked = FALSE
  /\ attempt = 0
  /\ ser = "none"
  /\ i = 0
  /\ recording = FALSE
  /\ data_lines = <<>>
  /\ all_data = <<>>
  /\ completed_distances = <<>>
  /\ temp_file = NoFile
  /\ final_file = NoFile
  /\ written = <<>>
  /\ error = "none"
  /\ opens = <<>>
  /\ prompts = 0
  /\ trail = <<>>
  /\ stale = 0
  /\ busy_twice = FALSE
  /\ accepted = <<>>
  /\ echo = TRUE
  /\ credited = {}
  /\ clean = TRUE
  /\ sent = <<>>
  /\ drained_start = FALSE

(***************************************************************************)
(* main: the distance prompt.                                              *)
(***************************************************************************)

\* choice = input(...).strip().lower(); 'n' asks for a list, anything else
\* takes the default.
ChooseDistances ==
  /\ pc = "prompt"
  /\ \/ distances' = DEFAULT_DISTANCES
     \/ \E text \in DistanceInputs : distances' = ParseDistances(text)
  /\ pc' = "find_port"
  /\ UNCHANGED <<portVars, connVars, loopVars, fileVars, error, histVars>>

(***************************************************************************)
(* find_arduino_port.                                                      *)
(***************************************************************************)

\* The port find_arduino_port returns without asking, or "ask".
AutoPort(found) ==
  IF Len(found) = 1 THEN found[1].device
  ELSE IF \E k \in 1..Len(found) : LooksLikeArduino(found[k].description)
  THEN found[CHOOSE k \in 1..Len(found) :
               /\ LooksLikeArduino(found[k].description)
               /\ \A j \in 1..(k - 1) : ~LooksLikeArduino(found[j].description)
            ].device
  ELSE "ask"

\* One call of find_arduino_port; answer is the operator's reply to the manual
\* prompt: an index, or "cancel" for a reply that is not a number or Ctrl+C.
\* An index out of range asks again, so only in-range indexes end the call.
FindPort ==
  /\ pc = "find_port"
  /\ \E found \in PortLists :
       /\ ports' = found
       /\ IF found = <<>>
          THEN pc' = "exit1" /\ port' = port /\ asked' = FALSE
          ELSE IF AutoPort(found) # "ask"
          THEN pc' = "connect" /\ port' = AutoPort(found) /\ asked' = FALSE
          ELSE /\ asked' = TRUE
               /\ \/ \E idx \in 0..(Len(found) - 1) :
                       pc' = "connect" /\ port' = found[idx + 1].device
                  \/ pc' = "exit0" /\ port' = port
  /\ UNCHANGED <<distances, connVars, loopVars, fileVars, error, histVars>>

(***************************************************************************)
(* connect_serial.                                                         *)
(***************************************************************************)

\* Mutant of IsLastAttempt: the last attempt is taken to be one earlier.
IsLastAttemptEarly(a) == a >= max_retries - 2

\* Mutant of IsLastAttempt: every attempt is taken to be the last one.
IsLastAttemptAlways(a) == TRUE

\* Mutant of IsLastAttempt: the last attempt is taken to be one later.
IsLastAttemptLate(a) == a >= max_retries

\* attempt >= max_retries - 1 (the else of "if attempt < max_retries - 1")
IsLastAttempt(a) == a >= max_retries - 1

\* for attempt in range(max_retries)
InRange(a) == a < max_retries

\* Mutant of AfterStep: the attempt returns without flushing the output.
AfterStepNoFlushOutput(p) ==
  CASE p = "settle"    -> "flush_in"
    [] p = "flush_in"  -> "ready"
    [] p = "flush_out" -> "ready"

\* What follows a step of the try body once serial.Serial() has returned:
\* time.sleep(2), ser.flushInput(), ser.flushOutput(), return ser.
AfterStep(p) ==
  CASE p = "settle"    -> "flush_in"
    [] p = "flush_in"  -> "flush_out"
    [] p = "flush_out" -> "ready"

\* The except clauses for an exception e of the try body. Busy: pause for the
\* operator, or exit after the last attempt. Anything else: sleep and go on,
\* or exit after the last attempt. No clause closes a handle.
Except(e) ==
  /\ opens' = Append(opens, ErrorClass(e))
  /\ trail' = <<>>
  /\ IF ErrorClass(e) = "busy"
     THEN /\ pc' = IF ~IsLastAttempt(attempt) THEN "retry" ELSE "exit1"
          /\ attempt' = attempt
     ELSE IF ErrorClass(e) = "serial"
     THEN /\ pc' = IF ~IsLastAttempt(attempt) THEN "connect" ELSE "exit1"
          /\ attempt' = IF ~IsLastAttempt(attempt)
                        THEN attempt + 1 ELSE attempt
     ELSE /\ pc' = IF IsLastAttempt(attempt) THEN "exit1" ELSE "connect"
          /\ attempt' = IF IsLastAttempt(attempt)
                        THEN attempt ELSE attempt + 1

\* ser = serial.Serial(port, BAUD_RATE, timeout=TIMEOUT) opens the port.
ConnectOpen ==
  /\ pc = "connect"
  /\ InRange(attempt)
  /\ pc' = "settle"
  /\ trail' = <<"open">>
  /\ UNCHANGED <<distances, portVars, attempt, ser, opens, prompts, stale,
                 loopVars, fileVars, error, histVars>>

\* The next step of the attempt completes; after the last one the channel is
\* returned to main.
ConnectOk ==
  /\ pc \in {"settle", "flush_in", "flush_out"}
  /\ trail' = Append(trail, pc)
  /\ pc' = AfterStep(pc)
  /\ IF AfterStep(pc) = "ready"
     THEN /\ ser' = "open"
          /\ opens' = Append(opens, "ok")
          /\ busy_twice' = (opens = <<"busy", "busy">>)
     ELSE UNCHANGED <<ser, opens, busy_twice>>
  /\ UNCHANGED <<distances, portVars, attempt, prompts, stale, loopVars,
                 fileVars, error, accepted, echo, credited, clean, sent,
                 drained_start>>

\* serial.Serial() raises e: no handle was opened.
ConnectFail ==
  /\ pc = "connect"
  /\ InRange(attempt)
  /\ \E e \in OpenErrors : Except(e)
  /\ UNCHANGED <<distances, portVars, ser, prompts, stale, loopVars, fileVars,
                 error, histVars>>

\* A flush raises e on the opened port: the handle of this attempt stays open.
FlushFail ==
  /\ pc \in {"flush_in", "flush_out"}
  /\ \E e \in OpenErrors : Except(e)
  /\ stale' = stale + 1
  /\ UNCHANGED <<distances, portVars, ser, prompts, loopVars, fileVars, error,
                 histVars>>

\* input("press Enter to retry"): Enter starts the next attempt.
RetryEnter ==
  /\ pc = "retry"
  /\ prompts' = prompts + 1
  /\ attempt' = attempt + 1
  /\ pc' = "connect"
  /\ UNCHANGED <<distances, portVars, ser, opens, trail, stale, loopVars,
                 fileVars, error, histVars>>

\* Ctrl+C at the pause: KeyboardInterrupt leaves main, __main__ exits 0.
RetryCancel ==
  /\ pc = "retry"
  /\ pc' = "exit0"
  /\ error' = "KeyboardInterrupt"
  /\ UNCHANGED <<distances, portVars, connVars, loopVars, fileVars, histVars>>

(***************************************************************************)
(* main: between the connect and the acquisition loop (outside the try).   *)
(***************************************************************************)

\* while ser.in_waiting: a start-up line is read and printed.
ReadyDrain ==
  /\ pc = "ready"
  /\ \E raw \in DeviceLines(0, 0) : clean' = FALSE
  /\ sent' = <<>>
  /\ UNCHANGED <<pc, distances, portVars, connVars, loopVars, fileVars, error,
                 busy_twice, accepted, echo, credited, drained_start>>

\* Nothing is waiting: all_data = [], completed_distances = [], the loop starts.
\* The locals of connect_serial are gone and port is not read again: they
\* leave the state. Of the connect history busy_twice is kept.
ReadyDone ==
  /\ pc = "ready"
  /\ pc' = "loop"
  /\ attempt' = 0
  /\ opens' = <<>>
  /\ prompts' = 0
  /\ stale' = 0
  /\ port' = "none"
  /\ ports' = <<>>
  /\ asked' = FALSE
  /\ UNCHANGED <<distances, ser, trail, loopVars, fileVars, error, histVars>>

\* Ctrl+C during the wait or the drain: not inside the try, the channel stays
\* open; __main__ exits 0.
ReadyInterrupt ==
  /\ pc = "ready"
  /\ pc' = "exit0"
  /\ error' = "KeyboardInterrupt"
  /\ UNCHANGED <<distances, portVars, connVars, loopVars, fileVars, histVars>>

\* ser.in_waiting or readline() raises during the drain: the exception leaves
\* main with the channel open.
ReadyChannelError ==
  /\ pc = "ready"
  /\ pc' = "crashed"
  /\ error' = "SerialException"
  /\ UNCHANGED <<distances, portVars, connVars, loopVars, fileVars, histVars>>

(***************************************************************************)
(* main: the end of the session (finally, final save, statistics).         *)
(***************************************************************************)

\* The code after the try statement, reached with the loop exhausted or with
\* KeyboardInterrupt caught (cause): ser.close(), then, if all_data holds
\* anything, save_data(all_data, final_file) and print_statistics(df).
\* save_data raises ValueError on a kept line with a non-integer field, to_csv
\* raises OSError when the file cannot be written (io_ok false), and
\* print_statistics raises KeyError on a table without rows (no columns).
Finalize(cause, io_ok) ==
  /\ ser' = "closed"
  /\ IF all_data = <<>>
     THEN pc' = "done" /\ error' = cause /\ final_file' = final_file
     ELSE IF SaveRaises(all_data)
     THEN pc' = "crashed" /\ error' = "ValueError" /\ final_file' = final_file
     ELSE IF ~io_ok
     THEN pc' = "crashed" /\ error' = "OSError" /\ final_file' = final_file
     ELSE /\ final_file' = FileOf(TableRows(all_data))
          /\ IF TableRows(all_data) = <<>>
             THEN pc' = "crashed" /\ error' = "KeyError"
             ELSE pc' = "done" /\ error' = cause

\* An exception other than KeyboardInterrupt inside the try: finally closes
\* the channel and the exception leaves main; nothing after the try runs.
Abort(exc) ==
  /\ ser' = "closed"
  /\ pc' = "crashed"
  /\ error' = exc

(***************************************************************************)
(* main: the acquisition loop.                                             *)
(***************************************************************************)

\* Mutant of SavesCheckpoint: the intermediate save runs after every distance.
SavesCheckpointAlways(idx, n) == TRUE

\* i % 3 == 0 or i == len(distances)
SavesCheckpoint(idx, n) == idx % SAVE_EVERY = 0 \/ idx = n

\* The next iteration: send_distance writes f"{distance}\n" and flushes.
StartDistance ==
  /\ pc = "loop"
  /\ i < Len(distances)
  /\ i' = i + 1
  /\ written' = Append(written, Str(distances[i + 1]) \o <<"\n">>)
  /\ pc' = "drain"
  /\ UNCHANGED <<distances, portVars, connVars, recording, data_lines, all_data,
                 completed_distances, fileVars, error, histVars>>

\* send_distance: while ser.in_waiting, a line is read; the acknowledgment
\* ends the drain, any other line is printed and the drain goes on.
DrainRead ==
  /\ pc = "drain"
  /\ \E raw \in DeviceLines(distances[i], 0) :
       /\ pc' = IF Contains(ReadLine(raw), ACK_MARKER) THEN "collect" ELSE "drain"
       /\ drained_start' = (drained_start \/ IsStartMarker(ReadLine(raw)))
  /\ clean' = FALSE
  /\ sent' = <<>>
  /\ UNCHANGED <<distances, portVars, connVars, loopVars, fileVars, error,
                 busy_twice, accepted, echo, credited>>

\* send_distance: nothing is waiting; collect_data_for_distance goes on with
\* data_lines = [] and recording = False.
DrainDone ==
  /\ pc = "drain"
  /\ pc' = "collect"
  /\ UNCHANGED <<distances, portVars, connVars, loopVars, fileVars, error, histVars>>

\* The protocol of a clean block: the start marker, rows of five integers, the
\* end marker, and nothing else.
WellFormedRow(line) ==
  LET parts == Split(line, Comma)
  IN  Len(parts) = 5 /\ \A k \in 1..5 : IsInt(parts[k])

FollowsProtocol(rec, line) ==
  IF rec THEN line = END_MARKER \/ WellFormedRow(line)
  ELSE line = START_MARKER

\* The buffered lines that are not rows of five integers.
OddCount(lines) ==
  Cardinality({ k \in 1..Len(lines) : ~WellFormedRow(lines[k]) })

\* Mutant of Extend: the new lines are put in front.
ExtendPrepends(all, lines) == lines \o all

\* Mutant of Extend: all_data = data_lines.
ExtendReplaces(all, lines) == lines

\* all_data.extend(data_lines)
Extend(all, lines) == all \o lines

\* A line with at least five comma-separated fields: one the table can hold.
FiveFields(line) == Len(Split(line, Comma)) >= 5

HasTableLine(lines) == \E k \in 1..Len(lines) : FiveFields(lines[k])

\* Every such line of a block carries, as its first field, the distance d.
EchoesDistance(lines, d) ==
  \A k \in 1..Len(lines) :
    LET parts == Split(lines[k], Comma)
    IN  Len(parts) >= 5 => IsInt(parts[1]) /\ ParseInt(parts[1]) = d

\* The end marker was read: collect_data_for_distance returns data_lines, main
\* extends all_data, appends the distance and, every third distance and after
\* the last one, saves the intermediate file.
EndOfBlock(io_ok) ==
  LET rows == Extend(all_data, data_lines)
  IN  /\ all_data' = IF SavesCheckpoint(i, Len(distances))
                     THEN ListAfterSave(rows) ELSE rows
      /\ completed_distances' = Append(completed_distances, distances[i])
      /\ accepted' = accepted \o data_lines
      /\ echo' = (echo /\ EchoesDistance(data_lines, distances[i]))
      /\ credited' = IF ~echo' THEN {}
                     ELSE IF HasTableLine(data_lines)
                     THEN credited \cup {distances[i]} ELSE credited
      /\ data_lines' = <<>>
      /\ recording' = FALSE
      /\ drained_start' = FALSE
      /\ IF ~SavesCheckpoint(i, Len(distances))
         THEN pc' = "loop" /\ UNCHANGED <<ser, temp_file, error>>
         ELSE IF SaveRaises(rows)
         THEN Abort("ValueError") /\ temp_file' = temp_file
         ELSE IF ~io_ok
         THEN Abort("OSError") /\ temp_file' = temp_file
         ELSE /\ temp_file' = FileOf(TableRows(rows))
              /\ pc' = "loop"
              /\ UNCHANGED <<ser, error>>

\* The branch the while body of collect_data_for_distance takes on a line:
\* skip an empty line, start recording, end the block, buffer a row, or drop.
LineAction(rec, line) ==
  IF line = <<>> THEN "skip"
  ELSE IF IsStartMarker(line) THEN "start"
  ELSE IF IsEndMarker(line) THEN "end"
  ELSE IF AcceptsRow(rec, line) THEN "row"
  ELSE "drop"

\* One pass of the while loop of collect_data_for_distance on the line read
\* (decoded and stripped). The file system takes the intermediate save or not.
CollectOn(line) ==
  LET ok   == clean /\ FollowsProtocol(recording, line)
      act  == LineAction(recording, line)
  IN  /\ IF act = "start"
         THEN /\ recording' = TRUE
              /\ drained_start' = FALSE
              /\ UNCHANGED <<pc, ser, data_lines, all_data,
                             completed_distances, temp_file, error, accepted,
                             echo, credited>>
         ELSE IF act = "end"
         THEN /\ Len(completed_distances) < MaxBlocks
              /\ \E io_ok \in BOOLEAN : EndOfBlock(io_ok)
         ELSE IF act = "row"
         THEN /\ Len(all_data) + Len(data_lines) < MaxRows
              /\ WellFormedRow(line) \/ OddCount(all_data \o data_lines) < MaxOdd
              /\ data_lines' = Append(data_lines, line)
              /\ UNCHANGED <<pc, ser, recording, all_data,
                             completed_distances, temp_file, error, accepted,
                             echo, credited, drained_start>>
         ELSE UNCHANGED <<pc, ser, recording, data_lines, all_data,
                          completed_distances, temp_file, error, accepted,
                          echo, credited, drained_start>>
      /\ UNCHANGED <<distances, portVars, attempt, opens, prompts, trail, stale, i, written,
                     final_file, busy_twice>>
      /\ clean' = ok
      /\ sent' = IF ~ok THEN <<>>
                 ELSE IF recording /\ WellFormedRow(line) THEN Append(sent, line)
                 ELSE sent

\* if ser.in_waiting: a line is waiting and is read.
CollectLine ==
  /\ pc = "collect"
  /\ \E raw \in DeviceLines(distances[i], Len(data_lines)) :
       CollectOn(ReadLine(raw))

\* ser.write, ser.in_waiting or ser.readline raises SerialException.
ChannelError ==
  /\ pc \in {"drain", "collect"}
  /\ Abort("SerialException")
  /\ UNCHANGED <<distances, portVars, attempt, opens, prompts, trail, stale, loopVars, fileVars,
                 histVars>>

\* Ctrl+C inside the try: the handler prints, finally closes the channel and
\* main goes on to the final save.
Interrupt ==
  /\ pc \in {"drain", "collect"}
  /\ \E io_ok \in BOOLEAN : Finalize("KeyboardInterrupt", io_ok)
  /\ UNCHANGED <<distances, portVars, attempt, opens, prompts, trail, stale, loopVars, temp_file,
                 histVars>>

\* The for loop is exhausted.
Finish ==
  /\ pc = "loop"
  /\ i = Len(distances)
  /\ \E io_ok \in BOOLEAN : Finalize("none", io_ok)
  /\ UNCHANGED <<distances, portVars, attempt, opens, prompts, trail, stale, loopVars, temp_file,
                 histVars>>

Next ==
  \/ ChooseDistances
  \/ FindPort
  \/ ConnectOpen
  \/ ConnectOk
  \/ ConnectFail
  \/ FlushFail
  \/ RetryEnter
  \/ RetryCancel
  \/ ReadyDrain
  \/ ReadyDone
  \/ ReadyInterrupt
  \/ ReadyChannelError
  \/ StartDistance
  \/ DrainRead
  \/ DrainDone
  \/ CollectLine
  \/ ChannelError
  \/ Interrupt
  \/ Finish

Spec == Init /\ [][Next]_vars

(***************************************************************************)
(* Vocabulary of the properties.                                           *)
(***************************************************************************)

\* The positions of main inside an attempt of connect_serial.
Connecting == {"connect", "settle", "flush_in", "flush_out"}

Range(seq) == { seq[k] : k \in 1..Len(seq) }

IsPrefix(a, b) == Len(a) <= Len(b) /\ SubSeq(b, 1, Len(a)) = a

\* A non-empty sequence of unique positive target distances.
UniquePositive(ds) ==
  /\ ds # <<>>
  /\ \A k \in 1..Len(ds) : ds[k] > 0
  /\ \A j, k \in 1..Len(ds) : j # k => ds[j] # ds[k]

\* The distinct distance_cm values of a table.
DistanceValues(file) == { file.rows[k].distance_cm : k \in 1..Len(file.rows) }

\* The position of distance d in the configured sequence ds.
ConfigIndex(ds, d) == CHOOSE k \in 1..Len(ds) : ds[k] = d

\* The table the buffered lines stand for: one row per line of at least five
\* fields, in the order of the lines.
ExpectedRow(line) ==
  LET f == Split(line, Comma)
  IN  [distance_cm |-> ParseInt(f[1]), sample_id |-> ParseInt(f[2]),
       bump_L |-> ParseInt(f[3]), bump_R |-> ParseInt(f[4]),
       bump_avg |-> ParseInt(f[5])]

ExpectedTable(lines) ==
  LET kept == SelectSeq(lines, FiveFields)
  IN  [k \in 1..Len(kept) |-> ExpectedRow(kept[k])]

(***************************************************************************)
(* C1. As claimed: when a session over unique positive target distances    *)
(* ends with a final table, the distinct distance_cm values of the table   *)
(* are exactly the distances that reached COMPLETE. Refuted: a distance    *)
(* that completes with no table row is completed and absent from the table.*)
(***************************************************************************)
C1_AsClaimed ==
  (pc = "done" /\ final_file.exists /\ UniquePositive(distances)) =>
    DistanceValues(final_file) = Range(completed_distances)

\* C1, amended: whenever the final table is written for unique positive target
\* distances, its rows are the lines of at least five fields buffered by the
\* completed distances, in completion order and then arrival order; and when
\* each such line names the distance it was collected for, the distinct
\* distance_cm values are exactly the completed distances that contributed
\* such a line, and the rows follow the configuration order of the distances.
C1_TableOfCompleted ==
  (final_file.exists /\ UniquePositive(distances)) =>
    /\ all_data = accepted
    /\ final_file.rows = ExpectedTable(accepted)
    /\ credited \subseteq Range(completed_distances)
    /\ echo =>
         /\ DistanceValues(final_file) = credited
         /\ \A j, k \in 1..Len(final_file.rows) :
              j < k => ConfigIndex(distances, final_file.rows[j].distance_cm)
                         <= ConfigIndex(distances, final_file.rows[k].distance_cm)

\* C1 witness: a final table with rows of two distances, while a completed
\* distance contributed no row.
C1_Witness ==
  /\ final_file.exists
  /\ UniquePositive(distances)
  /\ echo
  /\ Cardinality(DistanceValues(final_file)) >= 2
  /\ credited # Range(completed_distances)

(***************************************************************************)
(* C2. As claimed: marker matching is exact-line, so a received line that  *)
(* holds a marker text with extra content around it triggers no            *)
(* transition. Refuted: the code tests containment.                        *)
(***************************************************************************)
ExtraContent(line) ==
  \/ Contains(line, START_MARKER) /\ line # START_MARKER
  \/ Contains(line, END_MARKER) /\ line # END_MARKER

\* The lines the controller can read, decoded and stripped: those that do not
\* depend on the distance, and those that do.
FixedText == { ReadLine(raw) : raw \in FixedLines }
VaryingText ==
  { ReadLine(raw) : raw \in VaryingLines(distances[i], Len(data_lines)) }

\* The step taken was not the step of collect_data_for_distance on any of
\* these lines.
NotReadFrom(lines) == \A line \in lines : ~CollectOn(line)

HoldsStart(line) == Contains(line, START_MARKER)
HoldsEndOnly(line) ==
  ~Contains(line, START_MARKER) /\ Contains(line, END_MARKER)
HoldsNoMarker(line) ==
  ~Contains(line, START_MARKER) /\ ~Contains(line, END_MARKER)

\* The lines that hold the start marker text, the end marker text only, and
\* neither.
FixedStart == { line \in FixedText : HoldsStart(line) }
FixedEndOnly == { line \in FixedText : HoldsEndOnly(line) }
FixedNoMarker == { line \in FixedText : HoldsNoMarker(line) }

ReadableLines(fixed, Holds(_)) ==
  fixed \cup { line \in VaryingText : Holds(line) }

IsIntegerRow(row) ==
  /\ row.distance_cm \in Int
  /\ row.sample_id \in Int
  /\ row.bump_L \in Int
  /\ row.bump_R \in Int
  /\ row.bump_avg \in Int

C3_NoHeaderRow ==
  /\ \A k \in 1..Len(data_lines) : data_lines[k] # HEADER_LINE
  /\ \A k \in 1..Len(all_data) : all_data[k] # HEADER_LINE
  /\ \A k \in 1..Len(temp_file.rows) : IsIntegerRow(temp_file.rows[k])
  /\ \A k \in 1..Len(final_file.rows) : IsIntegerRow(final_file.rows[k])

\* C3 witness: recording, with a row already buffered, the device can send the
\* header line again, and the branch taken on it drops the line.
C3_Witness ==
  /\ pc = "collect"
  /\ recording
  /\ data_lines # <<>>
  /\ HEADER_LINE \o CRLF \in DeviceLines(distances[i], Len(data_lines))
  /\ LineAction(recording, ReadLine(HEADER_LINE \o CRLF)) = "drop"

(***************************************************************************)
(* C4. As claimed: the final table holds one row for each buffered line    *)
(* with exactly 5 comma-separated fields, and none for a line with fewer   *)
(* or more fields. The code keeps a line with more than 5 fields.          *)
(***************************************************************************)
ExactlyFive(line) == Len(Split(line, Comma)) = 5

C4_AsClaimed ==
  final_file.exists =>
    Len(final_file.rows) = Len(SelectSeq(all_data, ExactlyFive))

(***************************************************************************)
(* C5. As claimed: a buffered row that fails parsing raises nothing: no    *)
(* checkpoint, final save or session ends with the ValueError of int() or  *)
(* with the KeyError of the statistics over a table without rows.          *)
(***************************************************************************)
C5_AsClaimed == error \notin {"ValueError", "KeyError"}

(***************************************************************************)
(* C6. As claimed: when a checkpoint file and the final table both exist,  *)
(* the checkpoint's rows are a strict prefix of the final table's rows.    *)
(* Refuted: after the last distance the two files hold the same rows.      *)
(***************************************************************************)
C6_AsClaimed ==
  (temp_file.exists /\ final_file.exists) =>
    /\ IsPrefix(temp_file.rows, final_file.rows)
    /\ temp_file.rows # final_file.rows

\* C6, amended: whenever a checkpoint file and the final table both exist, the
\* checkpoint's row sequence is a prefix of the final table's row sequence,
\* and possibly the whole of it.
C6_CheckpointPrefix ==
  (temp_file.exists /\ final_file.exists) =>
    IsPrefix(temp_file.rows, final_file.rows)

\* C6 witness: a checkpoint with rows, and a final table with more rows.
C6_Witness ==
  /\ temp_file.exists
  /\ final_file.exists
  /\ temp_file.rows # <<>>
  /\ Len(temp_file.rows) < Len(final_file.rows)

IsStray(line) ==
  /\ ~Contains(line, START_MARKER)
  /\ ~Contains(line, END_MARKER)
  /\ ~StartsWith(line, HEADER_PREFIX)
  /\ ~WellFormedRow(line)

C8_AsClaimed ==
  /\ \A k \in 1..Len(data_lines) : ~IsStray(data_lines[k])
  /\ \A k \in 1..Len(all_data) : ~IsStray(all_data[k])
  /\ error # "ValueError"

(***************************************************************************)
(* C9. After two busy failures the connect is still being tried (unless    *)
(* the operator cancelled at the pause); when the                          *)
(* third attempt opens the port the session stands where a first-attempt   *)
(* success stands (channel open, nothing written, nothing collected); and  *)
(* such a session, when it runs to its normal end, has run the loop over   *)
(* every target distance, and its final table, when written, holds every   *)
(* accepted row exactly once.                                              *)
(***************************************************************************)
C9_BusyTwiceThenOpen ==
  /\ opens = <<"busy", "busy">> =>
       /\ ser = "none"
       /\ \/ pc \in {"retry"} \cup Connecting
          \/ pc = "exit0" /\ error = "KeyboardInterrupt"
  /\ opens = <<"busy", "busy", "ok">> =>
       /\ pc \in {"ready", "exit0", "crashed"}
       /\ ser = "open"
       /\ i = 0 /\ written = <<>> /\ all_data = <<>> /\ data_lines = <<>>
       /\ completed_distances = <<>>
  /\ (busy_twice /\ pc = "done" /\ error = "none") =>
       /\ completed_distances = distances
       /\ Len(written) = Len(distances)
  /\ (busy_twice /\ final_file.exists) =>
       /\ all_data = accepted
       /\ final_file.rows = ExpectedTable(accepted)

\* C9 witness: a session whose connect was busy, busy, then opened, ended
\* normally with a final table.
C9_Witness ==
  /\ busy_twice
  /\ pc = "done"
  /\ error = "none"
  /\ final_file.exists
  /\ Len(final_file.rows) >= 2

(***************************************************************************)
(* C10. connect_serial makes at most 3 open attempts; every busy failure   *)
(* that is followed by another attempt is followed by a pause for the      *)
(* operator first; and when the third attempt fails as busy the session    *)
(* exits with a failure status, with no channel, nothing written to the    *)
(* device and the acquisition loop never entered.                          *)
(***************************************************************************)
BusyCount(os) == Cardinality({ k \in 1..Len(os) : os[k] = "busy" })

LastIsBusy(os) == os # <<>> /\ os[Len(os)] = "busy"

C10_BoundedBusyRetry ==
  /\ Len(opens) <= 3
  /\ pc \in Connecting \cup {"ready"} => prompts = BusyCount(opens)
  /\ pc = "retry" => LastIsBusy(opens) /\ prompts = BusyCount(opens) - 1
  /\ (Len(opens) = 3 /\ opens[3] = "busy") =>
       /\ pc = "exit1"
       /\ ser = "none"
       /\ written = <<>>
       /\ i = 0
       /\ all_data = <<>>

\* C10 witness: three busy failures, two pauses, and the session has exited.
C10_Witness ==
  /\ pc = "exit1"
  /\ opens = <<"busy", "busy", "busy">>
  /\ prompts = 2

(***************************************************************************)
(* C11. As claimed: a connect failure that is not of the busy class is     *)
(* fatal on its first occurrence, so no open attempt follows one. Refuted: *)
(* the code sleeps and tries again, as it does for the busy class.         *)
(***************************************************************************)
NonBusy == {"serial", "other"}

C11_AsClaimed ==
  /\ \A k \in 1..(Len(opens) - 1) : opens[k] \notin NonBusy
  /\ (opens # <<>> /\ opens[Len(opens)] \in NonBusy) => pc = "exit1"

\* C11, amended: a connect failure that is not of the busy class is retried
\* without a pause for the operator: after the first or second attempt fails
\* so, the next open attempt is due; only when the third attempt fails so does
\* the session exit with a failure status, with no channel and nothing written.
C11_NonBusyRetried ==
  /\ Len(opens) <= 3
  /\ (opens # <<>> /\ opens[Len(opens)] \in NonBusy) =>
       /\ ser = "none"
       /\ written = <<>>
       /\ IF Len(opens) < 3
          THEN pc \in Connecting /\ attempt = Len(opens)
          ELSE pc = "exit1"
       /\ prompts = BusyCount(opens)

\* C11 witness: two failures outside the busy class, no pause, and the third
\* attempt opened the port.
C11_Witness ==
  /\ pc = "ready"
  /\ Len(opens) = 3
  /\ opens[1] \in NonBusy
  /\ opens[2] \in NonBusy
  /\ opens[3] = "ok"
  /\ prompts = 0
  /\ ser = "open"

(***************************************************************************)
(* C12. As claimed: once connect_serial has returned an open channel, a    *)
(* session that has ended, on whatever path, has closed it. The wait and   *)
(* the drain that follow the connect are outside the try statement.        *)
(***************************************************************************)
Ended == pc \in {"done", "crashed", "exit0", "exit1"}

C12_AsClaimed == (Ended /\ ser # "none") => ser = "closed"

(***************************************************************************)
(* C13. As claimed: when a read or a write on the channel fails during the *)
(* acquisition loop, the session has persisted the rows accumulated so far *)
(* (in the checkpoint or in the final table) when the error leaves main.   *)
(* The code has no handler for the error: nothing is saved on that path.   *)
(***************************************************************************)
\* The file holds a row for every accumulated line that gives a table row.
Persists(file) ==
  file.exists /\ Len(file.rows) = Len(SelectSeq(all_data, FiveFields))

C13_AsClaimed ==
  (pc = "crashed" /\ error = "SerialException" /\ i >= 1) =>
    \/ SelectSeq(all_data, FiveFields) = <<>>
    \/ Persists(temp_file)
    \/ Persists(final_file)

(***************************************************************************)
(* C14. As claimed: when the operator cancels while the controller reads   *)
(* (awaiting the start marker or recording) and the file system takes the  *)
(* write, every well-formed row accumulated by the completed distances is  *)
(* in the final table when the process exits. The final save raises on an  *)
(* accumulated line with a non-integer field (see C5) and writes nothing.  *)
(***************************************************************************)
\* The step is the KeyboardInterrupt path out of the read loop: the session
\* ends with no distance completing and no channel error.
IsCancel ==
  /\ pc = "collect"
  /\ pc' \in {"done", "crashed"}
  /\ completed_distances' = completed_distances
  /\ error' \notin {"SerialException", "OSError"}

C14_AsClaimed ==
  [][IsCancel =>
       \/ SelectSeq(all_data, WellFormedRow) = <<>>
       \/ /\ final_file'.exists
          /\ Len(final_file'.rows) >= Len(SelectSeq(all_data, WellFormedRow))]_vars

(***************************************************************************)
(* C15. As claimed: when the session fails inside the acquisition loop (a  *)
(* channel error, or a cancellation), the rows of every distance completed *)
(* before are in the checkpoint file. Refuted: the checkpoint is written   *)
(* after every third distance only.                                        *)
(***************************************************************************)
\* The session failed inside the loop by a channel error or a cancellation.
FailedInLoop ==
  /\ i >= 1
  /\ \/ pc = "crashed" /\ error = "SerialException"
     \/ pc = "done" /\ error = "KeyboardInterrupt"

C15_AsClaimed ==
  FailedInLoop =>
    \/ SelectSeq(all_data, FiveFields) = <<>>
    \/ Persists(temp_file)

\* C15, amended: while the loop runs and at the moment the session fails in it
\* (channel error or cancellation), a checkpoint file exists exactly when three
\* distances or all distances have completed; it holds rows of completed
\* distances only, as a prefix of the accumulated rows, and it holds all of
\* them when the number of completed distances is a multiple of three (or is
\* the number of distances): the rows of up to two distances completed since,
\* and the in-flight buffer, are in no checkpoint.
C15_CheckpointEveryThird ==
  LET n    == Len(completed_distances)
      kept == SelectSeq(all_data, FiveFields)
  IN  (i >= 1 /\ (pc \in {"loop", "drain", "collect"} \/ FailedInLoop)) =>
        /\ temp_file.exists <=> (n >= SAVE_EVERY \/ (n > 0 /\ n = Len(distances)))
        /\ Len(temp_file.rows) <= Len(kept)
        /\ \A k \in 1..Len(temp_file.rows) :
             temp_file.rows[k] = ExpectedRow(kept[k])
        /\ (n > 0 /\ SavesCheckpoint(n, Len(distances))) =>
             Len(temp_file.rows) = Len(kept)

\* C15 witness: the channel fails after four completed distances; the
\* checkpoint of the third holds rows, and a row of the fourth is in no file.
C15_Witness ==
  /\ pc = "crashed"
  /\ error = "SerialException"
  /\ Len(completed_distances) = 4
  /\ temp_file.rows # <<>>
  /\ Len(temp_file.rows) < Len(SelectSeq(all_data, FiveFields))

(***************************************************************************)
(* C16. As claimed: besides the checkpoints after every third distance, a  *)
(* checkpoint is written at the end of the session, also when the session  *)
(* ends abnormally: a session that failed inside the loop (channel error   *)
(* or cancellation) has a checkpoint file, and it holds every accumulated  *)
(* row. The code writes no checkpoint on those paths.                      *)
(***************************************************************************)
C16_AsClaimed == FailedInLoop => Persists(temp_file)

(***************************************************************************)
(* C17. As claimed: when a distance completes, the controller goes on with *)
(* the loop (the next distance, or the final save), whether or not the     *)
(* intermediate checkpoint write that is due succeeds. In the code an      *)
(* exception of the checkpoint write leaves main.                          *)
(***************************************************************************)
C17_AsClaimed ==
  [][(pc = "collect" /\ completed_distances' # completed_distances) =>
       pc' = "loop"]_vars

(***************************************************************************)
(* C18. As claimed: once the final table file of the session exists, no    *)
(* temporary checkpoint file of the session remains. The code never        *)
(* removes the file it wrote as bump_data_temp_<TIMESTAMP>.csv.            *)
(***************************************************************************)
C18_AsClaimed == final_file.exists => ~temp_file.exists

(***************************************************************************)
(* C19. As claimed: a session that started the acquisition loop and has    *)
(* ended, normally or by a failure or a cancellation, with or without      *)
(* accumulated rows, has saved its final table (once). The code saves it   *)
(* only when all_data is not empty, and not after a channel failure.       *)
(***************************************************************************)
C19_AsClaimed == (i >= 1 /\ pc \in {"done", "crashed"}) => final_file.exists

(***************************************************************************)
(* C20. As claimed: when several endpoints exist, find_arduino_port        *)
(* returns a port without asking exactly when one endpoint matches the     *)
(* known descriptor substrings; with no match or with more than one match  *)
(* the choice is left to the operator. The code returns the first match.   *)
(***************************************************************************)
MatchCount(found) ==
  Cardinality({ k \in 1..Len(found) : LooksLikeArduino(found[k].description) })

C20_AsClaimed ==
  Len(ports) > 1 => (asked <=> MatchCount(ports) # 1)

(***************************************************************************)
(* C21. A successful connect runs open, settle wait, flush input, flush    *)
(* output, return, in this order: the steps completed by an attempt are    *)
(* always an initial part of that order, and whenever the channel has been *)
(* returned to main, or a distance has been written, the attempt that      *)
(* opened the channel has completed both flushes.                          *)
(***************************************************************************)

\* The steps of a successful attempt, in the order of the try body.
ConnectOrder == <<"open", "settle", "flush_in", "flush_out">>

C21_FlushedBeforeUse ==
  /\ IsPrefix(trail, ConnectOrder)
  /\ (pc = "ready" \/ ser # "none") => trail = ConnectOrder
  /\ written # <<>> => trail = ConnectOrder

\* A distance was written on a channel that opened after two busy attempts.
C21_Witness ==
  /\ written # <<>>
  /\ busy_twice
  /\ ser = "open"
  /\ trail = ConnectOrder

(***************************************************************************)
(* C22. For each target distance the host writes exactly one line, the     *)
(* distance as a decimal integer followed by a newline: every write is the *)
(* line of the distance just started, no step of that distance writes      *)
(* anything else, and send_distance is left for the wait for the start     *)
(* marker whether or not an acknowledgment was read (only a channel error  *)
(* or a cancellation, which close the channel, lead elsewhere).            *)
(***************************************************************************)

\* text is d as a decimal integer followed by one newline.
IsDistanceLine(text, d) ==
  LET body == SubSeq(text, 1, Len(text) - 1)
  IN  /\ Len(text) >= 2
      /\ text[Len(text)] = "\n"
      /\ IsDigitString(IF Head(body) = "-" THEN Tail(body) ELSE body)
      /\ ParseInt(body) = d

C22_OneLinePerDistance ==
  [][/\ Len(written') = i'
     /\ written' # written =>
          /\ pc = "loop" /\ pc' = "drain" /\ i' = i + 1
          /\ written' = Append(written, written'[i'])
          /\ IsDistanceLine(written'[i'], distances[i'])
     /\ (pc = "drain" /\ pc' # "drain") =>
          pc' = "collect" \/ ser' = "closed"
    ]_vars

\* The second distance waits for its start marker; no line was read since the
\* session began, so neither distance was acknowledged.
C22_Witness ==
  /\ pc = "collect"
  /\ i = 2
  /\ clean
  /\ Len(written) = 2
  /\ written[1] # written[2]

(***************************************************************************)
(* C23. While the start marker of the current distance has not been seen,  *)
(* a step either turns recording on, or ends the session by a channel      *)
(* error or a cancellation (the channel is closed), or leaves the          *)
(* controller where it is: same position, same buffers, no distance        *)
(* completed.                                                              *)
(***************************************************************************)

\* collect_data_for_distance is waiting for the start marker.
AwaitingStart == pc = "collect" /\ ~recording

C23_AsClaimed ==
  [][AwaitingStart =>
       \/ pc' = "collect" /\ recording'
       \/ ser' = "closed"
       \/ UNCHANGED <<pc, i, recording, data_lines, all_data, completed_distances>>
    ]_vars

(***************************************************************************)
(* C24. While recording, a received line is appended to the row buffer if  *)
(* and only if it is non-empty, contains a comma and is not the literal    *)
(* column-header line; every other line, and every line received before    *)
(* the start marker, leaves the buffer unchanged. Stated on the steps that *)
(* stay in collect_data_for_distance, for every line the step can have     *)
(* read: a step whose effect on the buffer is not the claimed one is not   *)
(* the step on that line.                                                  *)
(***************************************************************************)

\* The decoded lines the device can have sent in the current state.
ReadableNow == FixedText \cup VaryingText

\* The row test as the claim words it.
ClaimedRow(line) ==
  line # <<>> /\ Contains(line, <<Comma>>) /\ line # HEADER_LINE

C24_AsClaimed ==
  [][(pc = "collect" /\ pc' = "collect") =>
       \A line \in ReadableNow :
         IF recording /\ ClaimedRow(line)
         THEN data_lines' # Append(data_lines, line) => ~CollectOn(line)
         ELSE data_lines' # data_lines => ~CollectOn(line)
    ]_vars

(***************************************************************************)
(* C24, amended. While recording, a received line is appended to the row   *)
(* buffer if and only if it is non-empty, contains a comma, holds neither  *)
(* marker text and does not start with the header prefix "distance_cm";    *)
(* accepted lines are appended at the end (arrival order), and every other *)
(* line, and every line received before the start marker, leaves the       *)
(* buffer unchanged.                                                       *)
(***************************************************************************)

\* The row test with the header recognised by its prefix.
PrefixRow(line) ==
  /\ line # <<>>
  /\ Contains(line, <<Comma>>)
  /\ ~Contains(line, START_MARKER)
  /\ ~Contains(line, END_MARKER)
  /\ ~StartsWith(line, HEADER_PREFIX)

C24_HeaderByPrefix ==
  [][(pc = "collect" /\ pc' = "collect") =>
       \A line \in ReadableNow :
         IF recording /\ PrefixRow(line)
         THEN data_lines' # Append(data_lines, line) => ~CollectOn(line)
         ELSE data_lines' # data_lines => ~CollectOn(line)
    ]_vars

\* Two rows were buffered in arrival order and another line was dropped.
C24_Witness ==
  /\ pc = "collect"
  /\ recording
  /\ ~clean
  /\ Len(data_lines) = 2
  /\ data_lines[1] = RowText(distances[i], 0)
  /\ data_lines[2] = RowText(distances[i], 1)

(***************************************************************************)
(* C25. The distance sequence with which the acquisition loop runs is a    *)
(* sequence of unique positive integers, whatever the operator answered at *)
(* the distance prompt.                                                    *)
(***************************************************************************)

C25_AsClaimed ==
  pc \in {"loop", "drain", "collect"} => UniquePositive(distances)

(***************************************************************************)
(* C26. A checkpoint write does not change the logical session, and every  *)
(* checkpoint overwrites the one temporary file: a step that changes the   *)
(* temporary file is the end of a block, it leaves all_data as extended by *)
(* the block and completed_distances as extended by the distance, and the  *)
(* file then holds the table of the whole of all_data and nothing of an    *)
(* earlier checkpoint beside it.                                           *)
(***************************************************************************)

C26_CheckpointKeepsSession ==
  [][temp_file' # temp_file =>
       /\ pc = "collect"
       /\ all_data' = all_data \o data_lines
       /\ completed_distances' = Append(completed_distances, distances[i])
       /\ temp_file'.exists
       /\ temp_file'.rows = TableRows(all_data')
    ]_vars

\* The second checkpoint of a session has overwritten the first: the file holds
\* the rows of the first and of the fourth distance, and the session still
\* holds every accepted line.
C26_Witness ==
  /\ pc = "loop"
  /\ Len(distances) = 4
  /\ Len(completed_distances) = 4
  /\ all_data = accepted
  /\ \A k \in 1..Len(all_data) : WellFormedRow(all_data[k])
  /\ temp_file.exists
  /\ temp_file.rows = TableRows(all_data)
  /\ \E k \in 1..Len(temp_file.rows) : temp_file.rows[k].distance_cm = distances[1]
  /\ \E k \in 1..Len(temp_file.rows) : temp_file.rows[k].distance_cm = distances[4]

(***************************************************************************)
(* C27. The drain of send_distance never loses a data block: a start       *)
(* marker the device emits after the distance was written is seen by the   *)
(* loop of collect_data_for_distance. So the loop is never waiting for a   *)
(* start marker that the drain of the same distance has already read.      *)
(***************************************************************************)

C27_AsClaimed ==
  ~(pc = "collect" /\ ~recording /\ drained_start)

(***************************************************************************)
(* C28. In every state of the acquisition loop completed_distances is a    *)
(* prefix of the configured sequence, no distance is in it twice, and      *)
(* all_data holds exactly the lines buffered by the distances whose end    *)
(* marker was read: nothing of the distance in flight.                     *)
(***************************************************************************)

\* No value occurs at two positions of seq.
NoRepeat(seq) ==
  \A j, k \in 1..Len(seq) : seq[j] = seq[k] => j = k

C28_AsClaimed ==
  pc \in {"loop", "drain", "collect"} =>
    /\ IsPrefix(completed_distances, distances)
    /\ NoRepeat(completed_distances)
    /\ all_data = accepted

(***************************************************************************)
(* C29. During connect_serial at most one channel handle is open at any    *)
(* time: while an attempt holds the port it has opened, and at the fatal   *)
(* exit, no handle of an earlier, failed attempt is still open.            *)
(***************************************************************************)

C29_AsClaimed ==
  /\ pc \in {"settle", "flush_in", "flush_out", "ready"} => stale = 0
  /\ pc = "exit1" => stale = 0

(***************************************************************************)
(* C30. With a device that answers every written distance by a start       *)
(* marker and later an end marker, no channel error and no cancellation,   *)
(* the session terminates with every target distance completed in the      *)
(* configured order, the channel closed and the final table saved. Stated  *)
(* on the states where main has ended: every line read followed the        *)
(* protocol, the exception that ended the session (if any) is neither a    *)
(* channel error nor a cancellation, and the distance started last was     *)
(* completed, so nothing cut a distance short.                             *)
(***************************************************************************)

C30_AsClaimed ==
  (/\ pc \in {"done", "crashed"}
   /\ clean
   /\ error \notin {"SerialException", "KeyboardInterrupt"}
   /\ i = Len(completed_distances)) =>
    /\ completed_distances = distances
    /\ ser = "closed"
    /\ all_data # <<>> => final_file.exists

====
